---- MODULE Spec2Model ----
(***************************************************************************)
(* The relay-list parsers of src/main.py: parse_data (hierarchical) and    *)
(* parse_flat (flat), and the relay-cycling loop run_for_all_nodes.  Text  *)
(* is a sequence of one-character strings, so that the three regular       *)
(* expressions of parse_data and the one of parse_flat are computed        *)
(* character by character, as re does.                                     *)
(***************************************************************************)
EXTENDS Integers, Sequences, FiniteSets, TLC

VARIABLES text, protocol, lines, i, raw, current_country, current_city,
          pc, error, result, flat_pc, flat_result,
          run_pc, node, conn, not_connected, log, func_calls, disc_polls, disc_sleeps

vars == <<text, protocol, lines, i, raw, current_country, current_city,
          pc, error, result, flat_pc, flat_result,
          run_pc, node, conn, not_connected, log, func_calls, disc_polls, disc_sleeps>>

(***************************************************************************)
(* Characters and strings                                                  *)
(***************************************************************************)
TAB == "\t"
NL == "\n"
SP == " "

\* Python's None for current_country / current_city and for an unmatched
\* regex group; every matched group is a non-empty string.
None == <<>>

\* \s of the re module, within the alphabet of the model
IsSpace(c) == c \in {SP, TAB, NL}

\* smallest index k >= from with s[k] \in S, 0 when there is none
FirstIn(s, S, from) ==
  LET P == {k \in from..Len(s) : s[k] \in S}
  IN IF P = {} THEN 0 ELSE CHOOSE k \in P : \A j \in P : k <= j

\* mutant: the test ignores the case of letters
Lower(c) == IF c = "W" THEN "w" ELSE c

IsSubstring_ignores_case(sub, s) ==
  \E k \in 0..(Len(s) - Len(sub)) :
    \A n \in 1..Len(sub) : Lower(s[k + n]) = Lower(sub[n])

\* `sub in s` of Python strings
IsSubstring(sub, s) ==
  \E k \in 0..(Len(s) - Len(sub)) : SubSeq(s, k + 1, k + Len(sub)) = sub

\* str.rstrip(): trailing whitespace removed
RECURSIVE rstrip(_)
rstrip(s) ==
  IF s # <<>> /\ IsSpace(s[Len(s)]) THEN rstrip(SubSeq(s, 1, Len(s) - 1)) ELSE s

\* str.splitlines() on text whose only line break is "\n"
RECURSIVE splitlines(_)
splitlines(s) ==
  IF s = <<>> THEN <<>>
  ELSE LET n == FirstIn(s, {NL}, 1)
       IN IF n = 0 THEN <<s>>
          ELSE <<SubSeq(s, 1, n - 1)>> \o splitlines(SubSeq(s, n + 1, Len(s)))

(***************************************************************************)
(* The regular expressions of parse_data, matched at the start of a line   *)
(* (re.match).  A match is [ok |-> TRUE, groups |-> <<...>>].              *)
(***************************************************************************)
NoMatch == [ok |-> FALSE, groups |-> <<>>]

\* `\(([^)]+)\)` with the "(" at index p: the code is what lies between it
\* and the first ")" after it, and is not empty
paren_code(s, p) ==
  LET q == FirstIn(s, {")"}, p + 1)
  IN IF q = 0 \/ q = p + 1 THEN None ELSE SubSeq(s, p + 1, q - 1)

\* `([^\t(][^(\n]*)\s*\(([^)]+)\)` with the name starting at index b: after a
\* first character that is no tab and no "(", the greedy name runs up to the
\* first "(" (tabs allowed on the way, \s* left empty), which opens the code
name_code(s, b) ==
  IF Len(s) < b \/ s[b] \in {TAB, "("} THEN NoMatch
  ELSE LET p == FirstIn(s, {"(", NL}, b + 1)
       IN IF p = 0 \/ s[p] # "(" \/ paren_code(s, p) = None THEN NoMatch
          ELSE [ok |-> TRUE,
                groups |-> <<SubSeq(s, b, p - 1), paren_code(s, p)>>]

\* top_re = ^([^\t(][^(\n]*)\s*\(([^)]+)\)
top_re(s) == name_code(s, 1)

\* mid_re = ^\t([^\t(][^(\n]*)\s*\(([^)]+)\)
mid_re(s) == IF Len(s) >= 1 /\ s[1] = TAB THEN name_code(s, 2) ELSE NoMatch

\* `\s*([^,()]+)` on a segment without ",", "(" and ")": \s* takes the
\* leading whitespace but leaves the group at least one character
ip_group(seg) ==
  LET ws == {k \in 1..Len(seg) : \A j \in 1..k : IsSpace(seg[j])}
      n == Cardinality(ws)
  IN IF n = Len(seg) THEN SubSeq(seg, Len(seg), Len(seg))
     ELSE SubSeq(seg, n + 1, Len(seg))

\* leaf_re = ^\t\t([^\t(][^(\n]*)\s* \(\s*([^,()]+)(?:,\s*([^,()]+))?\s*\)
leaf_re(s) ==
  IF Len(s) < 3 \/ s[1] # TAB \/ s[2] # TAB \/ s[3] \in {TAB, "("} THEN NoMatch
  ELSE LET p == FirstIn(s, {"(", NL}, 4)
       IN IF p < 5 \/ s[p] # "(" \/ s[p - 1] # SP THEN NoMatch
          ELSE LET code == SubSeq(s, 3, p - 2)
                   r == FirstIn(s, {",", "(", ")"}, p + 1)
               IN IF r = 0 \/ r = p + 1 THEN NoMatch
                  ELSE IF s[r] = ")"
                  THEN [ok |-> TRUE,
                        groups |-> <<code, ip_group(SubSeq(s, p + 1, r - 1)), None>>]
                  ELSE IF s[r] = ","
                  THEN LET r2 == FirstIn(s, {",", "(", ")"}, r + 1)
                       IN IF r2 = 0 \/ r2 = r + 1 \/ s[r2] # ")" THEN NoMatch
                          ELSE [ok |-> TRUE,
                                groups |-> <<code,
                                             ip_group(SubSeq(s, p + 1, r - 1)),
                                             ip_group(SubSeq(s, r + 1, r2 - 1))>>]
                  ELSE NoMatch

(***************************************************************************)
(* parse_flat: re.compile(r'^\t\t([^\t(]+)\s* \(', re.MULTILINE).findall   *)
(***************************************************************************)
\* mutant: re.MULTILINE forgotten, ^ is the start of the text only
AtLineStart_of_text_only(s, k) == k = 1

\* ^ under re.MULTILINE: the start of the text or just after a "\n"
AtLineStart(s, k) == k = 1 \/ s[k - 1] = NL

\* end of the maximal whitespace run that starts at index t
WsRunEnd(s, t) ==
  LET P == {k \in t..Len(s) : \A j \in t..k : IsSpace(s[j])}
  IN t + Cardinality(P) - 1

\* one attempt of the pattern at index k: [ok, code, next], next being the
\* index after the matched "(".  The group [^\t(]+ is not stopped by "\n";
\* it runs to the first tab or "(" and gives back what `\s* \(` needs.
flat_match(s, k) ==
  IF ~(AtLineStart(s, k) /\ k + 2 <= Len(s) /\ s[k] = TAB /\ s[k + 1] = TAB
       /\ s[k + 2] \notin {TAB, "("})
  THEN [ok |-> FALSE, code |-> None, next |-> k + 1]
  ELSE LET t == FirstIn(s, {TAB, "("}, k + 3)
       IN IF t = 0 THEN [ok |-> FALSE, code |-> None, next |-> k + 1]
          ELSE IF s[t] = "("
          THEN IF t - 2 >= k + 2 /\ s[t - 1] = SP
               THEN [ok |-> TRUE, code |-> SubSeq(s, k + 2, t - 2), next |-> t + 1]
               ELSE [ok |-> FALSE, code |-> None, next |-> k + 1]
          ELSE LET v == WsRunEnd(s, t)
               IN IF v > t /\ v < Len(s) /\ s[v] = SP /\ s[v + 1] = "("
                  THEN [ok |-> TRUE, code |-> SubSeq(s, k + 2, t - 1), next |-> v + 2]
                  ELSE [ok |-> FALSE, code |-> None, next |-> k + 1]

\* findall: the groups of the successive non-overlapping matches, scanning
\* the text from index k on
RECURSIVE findall(_, _)
findall(s, k) ==
  IF k > Len(s) THEN <<>>
  ELSE LET m == flat_match(s, k)
       IN IF m.ok THEN <<m.code>> \o findall(s, m.next) ELSE findall(s, m.next)

\* [code for code in all_codes if protocol in code]
RECURSIVE filter_codes(_, _)
filter_codes(codes, marker) ==
  IF codes = <<>> THEN <<>>
  ELSE (IF IsSubstring(marker, Head(codes)) THEN <<Head(codes)>> ELSE <<>>)
       \o filter_codes(Tail(codes), marker)

parse_flat(s, marker) == filter_codes(findall(s, 1), marker)

(***************************************************************************)
(* Python dicts keep insertion order: a dict is a sequence of              *)
(* [key, val] entries with distinct keys.                                  *)
(***************************************************************************)
dict_keys(d) == {d[k].key : k \in DOMAIN d}

dict_index(d, key) == CHOOSE k \in DOMAIN d : d[k].key = key

\* d[key]
dict_get(d, key) == d[dict_index(d, key)].val

\* mutant: an existing key that is set again moves to the last position
dict_set_moves_last(d, key, val) ==
  SelectSeq(d, LAMBDA e : e.key # key) \o <<[key |-> key, val |-> val]>>

\* d[key] = val: an existing key keeps its position, a new key goes last
dict_set(d, key, val) ==
  IF key \in dict_keys(d)
  THEN [d EXCEPT ![dict_index(d, key)] = [key |-> key, val |-> val]]
  ELSE Append(d, [key |-> key, val |-> val])

\* the entries of d whose value is not empty (`if servers:`, `if filtered_cities:`)
RECURSIVE non_empty(_)
non_empty(d) ==
  IF d = <<>> THEN <<>>
  ELSE (IF Head(d).val # <<>> THEN <<Head(d)>> ELSE <<>>) \o non_empty(Tail(d))

\* filtered_cities of one country
filtered_cities(cities) == non_empty(cities)

\* mutant: empty cities dropped, countries left without city kept
prune_keeps_countries(d) ==
  [k \in DOMAIN d |-> [key |-> d[k].key, val |-> filtered_cities(d[k].val)]]

\* the pruning pass: empty cities dropped, then countries left without city
prune(d) ==
  non_empty([k \in DOMAIN d |->
               [key |-> d[k].key, val |-> filtered_cities(d[k].val)]])

(***************************************************************************)
(* Inputs: the text is made of lines out of SampleLines, each ended by     *)
(* "\n".  The marker is '-wg-' in both callers (get_relays and             *)
(* get_relays_flat), modelled by "-w", on texts of at most MaxLines lines; *)
(* a second marker, "-W", is tried on texts of one line less.              *)
(***************************************************************************)
MaxLines == 4

SampleLines ==
  { <<"A", SP, "(", "a", ")">>,                                  \* country a
    <<TAB, "C", SP, "(", "c", ")", SP, "@">>,                    \* city c, trailing text
    <<TAB, TAB, "s", "-", "w", SP, "(", "1", ")">>,              \* server, one IP
    <<TAB, TAB, "t", "-", "w", SP, "(", "1", ",", SP, "2", ")">>, \* server, two IPs
    <<TAB, TAB, "u", "-", "W", SP, "(", "3", ")">>,              \* server, other protocol
    <<TAB, TAB, "v", "-", "w", SP, "(", "1", ",", "2", ",", "3", ")">>, \* three IPs
    <<TAB, TAB, "p", TAB, "-", "w", SP, "(", "4", ")">>,         \* tab inside the code
    <<TAB, TAB, "x", "-", "w">>,                                 \* two tabs, no "("
    <<SP, "E", SP, "(", "e", ")">>,                              \* indented with a space
    <<>> }                                                       \* blank line

WG == <<"-", "w">>
OtherMarker == <<"-", "W">>

RECURSIVE join_lines(_)
join_lines(ls) ==
  IF ls = <<>> THEN <<>> ELSE Head(ls) \o <<NL>> \o join_lines(Tail(ls))

\* the texts of exactly n lines out of L
TextsOf(L, m) == { join_lines(ls) : ls \in [1..m -> L] }

\* the texts of exactly n lines
Texts(m) == TextsOf(SampleLines, m)

(***************************************************************************)
(* State                                                                   *)
(*   text, protocol   the arguments of both parsers                        *)
(*   lines, i         text.splitlines() and the index of the next line     *)
(*   raw, current_country, current_city   locals of parse_data             *)
(*   pc               "loop", "done" (returned result) or "raised"         *)
(*   error            the message of the ValueError, "" while none         *)
(*   result           what parse_data returned, once pc = "done"           *)
(*   flat_pc          "idle" or "done"; flat_result what parse_flat        *)
(*                    returned                                             *)
(* The two parsers share no state, so the order of the two calls is        *)
(* immaterial: parse_flat is called first, parse_data second.              *)
(*   run_pc, node, conn, not_connected, log, func_calls, disc_polls,          *)
(*   disc_sleeps      the state of run_for_all_nodes, described with its   *)
(*                    actions; run_pc = "idle" while the parsers are       *)
(*                    studied on their own                                 *)
(***************************************************************************)
run_vars == <<run_pc, node, conn, not_connected, log, func_calls, disc_polls, disc_sleeps>>

\* run_for_all_nodes has not been called
RunIdle ==
  /\ run_pc = "idle"
  /\ node = 0
  /\ conn = <<>>
  /\ not_connected = FALSE
  /\ log = <<>>
  /\ func_calls = <<>>
  /\ disc_polls = 0
  /\ disc_sleeps = 0

\* the locals of parse_data and parse_flat as a call starts on text
ParseStart ==
  /\ lines = splitlines(text)
  /\ i = 1
  /\ raw = <<>>
  /\ current_country = None
  /\ current_city = None
  /\ pc = "loop"
  /\ error = ""
  /\ result = <<>>
  /\ flat_pc = "idle"
  /\ flat_result = <<>>

Init ==
  /\ \/ \E m \in 0..MaxLines : text \in Texts(m) /\ protocol = WG
     \/ \E m \in 0..(MaxLines - 1) : text \in Texts(m) /\ protocol = OtherMarker
  /\ ParseStart
  /\ RunIdle

\* the line the loop body works on: line = line.rstrip()
line == rstrip(lines[i])

InLoop == flat_pc = "done" /\ pc = "loop" /\ i <= Len(lines)

flat_vars == <<flat_pc, flat_result>>
in_vars == <<text, protocol, lines>>

\* `if not line: continue`
parse_data_blank ==
  /\ InLoop
  /\ line = <<>>
  /\ i' = i + 1
  /\ UNCHANGED <<in_vars, run_vars, raw, current_country, current_city, pc, error, result, flat_vars>>

\* mutant: a country code met again keeps what it had collected
parse_data_country_merges ==
  /\ InLoop
  /\ line # <<>>
  /\ top_re(line).ok
  /\ LET country_code == top_re(line).groups[2]
     IN /\ raw' = IF country_code \in dict_keys(raw) THEN raw
                  ELSE dict_set(raw, country_code, <<>>)
        /\ current_country' = country_code
        /\ current_city' = None
  /\ i' = i + 1
  /\ UNCHANGED <<in_vars, run_vars, pc, error, result, flat_vars>>

\* country level: raw[country_code] = {}, the city is closed
parse_data_country ==
  /\ InLoop
  /\ line # <<>>
  /\ top_re(line).ok
  /\ LET country_code == top_re(line).groups[2]
     IN /\ raw' = dict_set(raw, country_code, <<>>)
        /\ current_country' = country_code
        /\ current_city' = None
  /\ i' = i + 1
  /\ UNCHANGED <<in_vars, run_vars, pc, error, result, flat_vars>>

IsCityLine(l) == l # <<>> /\ ~top_re(l).ok /\ mid_re(l).ok

\* mutant: a city declared again keeps the servers it had collected
parse_data_city_keeps_servers ==
  /\ InLoop
  /\ IsCityLine(line)
  /\ current_country # None
  /\ LET city_code == mid_re(line).groups[2]
         cities == dict_get(raw, current_country)
     IN /\ raw' = IF city_code \in dict_keys(cities) THEN raw
                   ELSE dict_set(raw, current_country, dict_set(cities, city_code, <<>>))
        /\ current_city' = city_code
  /\ i' = i + 1
  /\ UNCHANGED <<in_vars, run_vars, current_country, pc, error, result, flat_vars>>

\* city level, a country being open: raw[current_country][city_code] = []
parse_data_city ==
  /\ InLoop
  /\ IsCityLine(line)
  /\ current_country # None
  /\ LET city_code == mid_re(line).groups[2]
     IN /\ raw' = dict_set(raw, current_country,
                           dict_set(dict_get(raw, current_country), city_code, <<>>))
        /\ current_city' = city_code
  /\ i' = i + 1
  /\ UNCHANGED <<in_vars, run_vars, current_country, pc, error, result, flat_vars>>

\* mutant: the city line without country is skipped instead of raising
parse_data_city_error_skips ==
  /\ InLoop
  /\ IsCityLine(line)
  /\ current_country = None
  /\ i' = i + 1
  /\ UNCHANGED <<in_vars, run_vars, raw, current_country, current_city, pc, error, result, flat_vars>>

\* city level, no country open: raise ValueError("Found city before country")
parse_data_city_error ==
  /\ InLoop
  /\ IsCityLine(line)
  /\ current_country = None
  /\ pc' = "raised"
  /\ error' = "Found city before country"
  /\ UNCHANGED <<in_vars, run_vars, i, raw, current_country, current_city, result, flat_vars>>

IsServerLine(l) == l # <<>> /\ ~top_re(l).ok /\ ~mid_re(l).ok /\ leaf_re(l).ok

\* server leaf without the marker: `if protocol not in server_code: continue`
parse_data_server_skip ==
  /\ InLoop
  /\ IsServerLine(line)
  /\ ~IsSubstring(protocol, leaf_re(line).groups[1])
  /\ i' = i + 1
  /\ UNCHANGED <<in_vars, run_vars, raw, current_country, current_city, pc, error, result, flat_vars>>

\* server leaf with the marker, no country or no city open
parse_data_server_error ==
  /\ InLoop
  /\ IsServerLine(line)
  /\ IsSubstring(protocol, leaf_re(line).groups[1])
  /\ (current_country = None \/ current_city = None)
  /\ pc' = "raised"
  /\ error' = "Found server before country/city"
  /\ UNCHANGED <<in_vars, run_vars, i, raw, current_country, current_city, result, flat_vars>>

\* mutant: the second IP comes first
server_entry_swaps_ips(g) ==
  [code |-> g[1], ips |-> IF g[3] # None THEN <<g[3], g[2]>> ELSE <<g[2]>>]

\* the entry a server line stores: (server_code, [ip1]) or (server_code, [ip1, ip2])
server_entry(g) ==
  [code |-> g[1], ips |-> IF g[3] # None THEN <<g[2], g[3]>> ELSE <<g[2]>>]

\* mutant: the entry is put first instead of last
append_server_puts_first(d, country, city, entry) ==
  dict_set(d, country,
           dict_set(dict_get(d, country), city,
                    <<entry>> \o dict_get(dict_get(d, country), city)))

\* raw[current_country][current_city].append((server_code, ips))
append_server(d, country, city, entry) ==
  dict_set(d, country,
           dict_set(dict_get(d, country), city,
                    Append(dict_get(dict_get(d, country), city), entry)))

\* server leaf with the marker under an open country and city
parse_data_server ==
  /\ InLoop
  /\ IsServerLine(line)
  /\ IsSubstring(protocol, leaf_re(line).groups[1])
  /\ current_country # None /\ current_city # None
  /\ raw' = append_server(raw, current_country, current_city,
                          server_entry(leaf_re(line).groups))
  /\ i' = i + 1
  /\ UNCHANGED <<in_vars, run_vars, current_country, current_city, pc, error, result, flat_vars>>

\* mutant: a line of none of the three shapes closes the current city
parse_data_ignore_closes_city ==
  /\ InLoop
  /\ line # <<>>
  /\ ~top_re(line).ok /\ ~mid_re(line).ok /\ ~leaf_re(line).ok
  /\ current_city' = None
  /\ i' = i + 1
  /\ UNCHANGED <<in_vars, run_vars, raw, current_country, pc, error, result, flat_vars>>

\* a line of none of the three shapes: the loop body falls through
parse_data_ignore ==
  /\ InLoop
  /\ line # <<>>
  /\ ~top_re(line).ok /\ ~mid_re(line).ok /\ ~leaf_re(line).ok
  /\ i' = i + 1
  /\ UNCHANGED <<in_vars, run_vars, raw, current_country, current_city, pc, error, result, flat_vars>>

\* after the loop: prune and return
parse_data_return ==
  /\ flat_pc = "done"
  /\ pc = "loop"
  /\ i > Len(lines)
  /\ result' = prune(raw)
  /\ pc' = "done"
  /\ UNCHANGED <<in_vars, run_vars, i, raw, current_country, current_city, error, flat_vars>>

\* mutant: parse_flat raises when the text starts with a server line
parse_flat_call_wants_country ==
  /\ flat_pc = "idle"
  /\ IF lines # <<>> /\ IsServerLine(rstrip(lines[1]))
     THEN flat_pc' = "raised" /\ flat_result' = flat_result
     ELSE flat_pc' = "done" /\ flat_result' = parse_flat(text, protocol)
  /\ UNCHANGED <<in_vars, run_vars, i, raw, current_country, current_city, pc, error, result>>

\* parse_flat(text, protocol), a call of its own on the same arguments
parse_flat_call ==
  /\ flat_pc = "idle"
  /\ flat_result' = parse_flat(text, protocol)
  /\ flat_pc' = "done"
  /\ UNCHANGED <<in_vars, run_vars, i, raw, current_country, current_city, pc, error, result>>

Next ==
  \/ parse_data_blank
  \/ parse_data_country
  \/ parse_data_city
  \/ parse_data_city_error
  \/ parse_data_server_skip
  \/ parse_data_server_error
  \/ parse_data_server
  \/ parse_data_ignore
  \/ parse_data_return
  \/ parse_flat_call

Spec == Init /\ [][Next]_vars

(***************************************************************************)
(* A second choice of inputs for the same parsers: short texts over more   *)
(* kinds of lines (a line with three leading tabs added), and longer texts *)
(* over few kinds of lines, in which a country or a city is declared       *)
(* again after another one has collected servers.                          *)
(***************************************************************************)
ShortLines == 3
MaxOrderLines == 7

MoreLines ==
  SampleLines \cup { <<TAB, TAB, TAB, "z", "-", "w", SP, "(", "1", ")">> }  \* three tabs

\* countries a and b, city c, a server
CountryOrderLines ==
  { <<"A", SP, "(", "a", ")">>,
    <<"B", SP, "(", "b", ")">>,
    <<TAB, "C", SP, "(", "c", ")", SP, "@">>,
    <<TAB, TAB, "s", "-", "w", SP, "(", "1", ")">> }

\* country a, cities c and d, a server
CityOrderLines ==
  { <<"A", SP, "(", "a", ")">>,
    <<TAB, "C", SP, "(", "c", ")", SP, "@">>,
    <<TAB, "D", SP, "(", "d", ")">>,
    <<TAB, TAB, "s", "-", "w", SP, "(", "1", ")">> }

InitMore ==
  /\ \/ \E m \in 0..ShortLines : text \in TextsOf(MoreLines, m) /\ protocol = WG
     \/ \E m \in 0..MaxOrderLines : text \in TextsOf(CountryOrderLines, m) /\ protocol = WG
     \/ \E m \in 0..(MaxOrderLines - 1) : text \in TextsOf(CityOrderLines, m) /\ protocol = WG
  /\ ParseStart
  /\ RunIdle

SpecMore == InitMore /\ [][Next]_vars

(***************************************************************************)
(* run_for_all_nodes(func).  nodes = get_relays() is a result of           *)
(* parse_data; the three nested for loops visit its server entries in the  *)
(* order of the hierarchy.  Every call of run_mullvad_command is one       *)
(* action, together with the branching of the code on what it returned;    *)
(* what the mullvad client prints is chosen by the environment.  func is   *)
(* taken to return.                                                        *)
(*   run_pc          "idle", "for" (head of the innermost for loop),       *)
(*                   "connect", "wait_connect" (first while loop), "func", *)
(*                   "disconnect", "wait_disconnect" (second while loop),  *)
(*                   "gave_up" (the return in the first while loop) or     *)
(*                   "returned" (the loops ran out)                        *)
(*   node            index in nodes of the server entry of the current     *)
(*                   iteration                                             *)
(*   conn            the last output of `mullvad status`                   *)
(*   not_connected   the flag of the first while loop                      *)
(*   log             history: the commands issued and the calls of func,   *)
(*                   each with the index of its server entry and the       *)
(*                   output it got; status polls that follow one another   *)
(*                   are kept as one record holding the latest output      *)
(*   func_calls      history: the indices of the entries func was called   *)
(*                   for                                                   *)
(*   disc_polls      history: status polls of the current first while loop *)
(*                   that returned 'Disconnected'                          *)
(*   disc_sleeps     history: sleep(1) calls of the current first while    *)
(*                   loop made after such a poll                           *)
(***************************************************************************)
Error == <<"E", "r", "r", "o", "r">>
Updated ==
  <<"R", "e", "l", "a", "y", SP, "c", "o", "n", "s", "t", "r", "a", "i", "n", "t", "s",
    SP, "u", "p", "d", "a", "t", "e", "d">>
Connecting == <<"C", "o", "n", "n", "e", "c", "t", "i", "n", "g">>
Connected == <<"C", "o", "n", "n", "e", "c", "t", "e", "d">>
Disconnected == <<"D", "i", "s", "c", "o", "n", "n", "e", "c", "t", "e", "d">>
Disconnecting == <<"D", "i", "s", "c", "o", "n", "n", "e", "c", "t", "i", "n", "g">>

\* s.startswith(prefix)
startswith(s, prefix) ==
  Len(s) >= Len(prefix) /\ SubSeq(s, 1, Len(prefix)) = prefix

\* what `mullvad relay set location ...` may print: success, an error, nothing
\* (errors go to stderr, only stdout is read), an error naming the phrase
SetReplies ==
  { Updated \o <<NL>>,
    Error \o <<":", SP, "x">>,
    <<>>,
    Error \o <<":", SP>> \o Updated }

\* what `mullvad status` may print
StatusReplies ==
  { Connecting \o <<SP, "t", "o", SP, "s">>,
    Connected \o <<SP, "t", "o", SP, "s">>,
    Disconnected \o <<NL>>,
    Disconnecting \o <<NL>>,
    <<>> }

\* the entries of one city, of one country, of the hierarchy, in loop order
RECURSIVE servers_of(_, _, _)
servers_of(country_code, city_code, servers) ==
  IF servers = <<>> THEN <<>>
  ELSE <<[country |-> country_code, city |-> city_code, code |-> Head(servers).code]>>
       \o servers_of(country_code, city_code, Tail(servers))

RECURSIVE cities_of(_, _)
cities_of(country_code, cities) ==
  IF cities = <<>> THEN <<>>
  ELSE servers_of(country_code, Head(cities).key, Head(cities).val)
       \o cities_of(country_code, Tail(cities))

RECURSIVE countries_of(_)
countries_of(d) ==
  IF d = <<>> THEN <<>>
  ELSE cities_of(Head(d).key, Head(d).val) \o countries_of(Tail(d))

\* the server entries the loops visit, in order
nodes == countries_of(result)

\* hierarchies get_relays may return: none, one, two and three servers
SampleResults ==
  LET s == [code |-> <<"s", "-", "w">>, ips |-> <<<<"1">>>>]
      t == [code |-> <<"t", "-", "w">>, ips |-> <<<<"1">>, <<"2">>>>]
      c(servers) == [key |-> <<"c">>, val |-> servers]
      d(servers) == [key |-> <<"d">>, val |-> servers]
  IN { <<>>,
       <<[key |-> <<"a">>, val |-> <<c(<<s>>)>>]>>,
       <<[key |-> <<"a">>, val |-> <<c(<<s, t>>)>>]>>,
       <<[key |-> <<"a">>, val |-> <<c(<<s>>), d(<<t>>)>>],
         [key |-> <<"e">>, val |-> <<c(<<s>>)>>]>> }

\* run_for_all_nodes is entered with the hierarchy get_relays returned
InitRun ==
  /\ text = <<>>
  /\ protocol = WG
  /\ lines = <<>>
  /\ i = 1
  /\ result \in SampleResults
  /\ raw = result
  /\ current_country = None
  /\ current_city = None
  /\ pc = "done"
  /\ error = ""
  /\ flat_pc = "done"
  /\ flat_result = <<>>
  /\ run_pc = "for"
  /\ node = 1
  /\ conn = <<>>
  /\ not_connected = FALSE
  /\ log = <<>>
  /\ func_calls = <<>>
  /\ disc_polls = 0
  /\ disc_sleeps = 0

parse_vars == <<text, protocol, lines, i, raw, current_country, current_city,
                pc, error, result, flat_pc, flat_result>>

\* one record of the history
event(cmd, out) == [cmd |-> cmd, node |-> node, out |-> out]

\* the history after a status poll that returned out
log_status(out) ==
  IF log # <<>> /\ log[Len(log)].cmd = "status" /\ log[Len(log)].node = node
  THEN [log EXCEPT ![Len(log)] = event("status", out)]
  ELSE Append(log, event("status", out))

\* mutant: only an output that starts with 'Error' counts as a failure
set_failed_only_error(r) == startswith(r, Error)

\* ret.startswith('Error') or "Relay constraints updated" not in ret
set_failed(r) == startswith(r, Error) \/ ~IsSubstring(Updated, r)

\* relay set location failed: warning, continue with the next entry
run_set_location_failed ==
  /\ run_pc = "for"
  /\ node <= Len(nodes)
  /\ \E r \in SetReplies :
       /\ set_failed(r)
       /\ log' = Append(log, event("relay set location", r))
  /\ node' = node + 1
  /\ UNCHANGED <<parse_vars, run_pc, conn, not_connected, func_calls, disc_polls, disc_sleeps>>

\* relay set location succeeded
run_set_location ==
  /\ run_pc = "for"
  /\ node <= Len(nodes)
  /\ \E r \in SetReplies :
       /\ ~set_failed(r)
       /\ log' = Append(log, event("relay set location", r))
  /\ run_pc' = "connect"
  /\ UNCHANGED <<parse_vars, node, conn, not_connected, func_calls, disc_polls, disc_sleeps>>

\* run_mullvad_command("connect"); not_connected = False
run_connect ==
  /\ run_pc = "connect"
  /\ log' = Append(log, event("connect", <<>>))
  /\ not_connected' = FALSE
  /\ disc_polls' = 0
  /\ disc_sleeps' = 0
  /\ run_pc' = "wait_connect"
  /\ UNCHANGED <<parse_vars, node, conn, func_calls>>

\* mutant: a poll that returns 'Connecting' clears the flag
run_status_connecting_clears_flag ==
  /\ run_pc = "wait_connect"
  /\ \E r \in StatusReplies :
       /\ startswith(r, Connecting)
       /\ conn' = r
       /\ log' = log_status(r)
  /\ not_connected' = FALSE
  /\ UNCHANGED <<parse_vars, run_pc, node, func_calls, disc_polls, disc_sleeps>>

\* first while loop, status starts with 'Connecting': sleep(1); continue
run_status_connecting ==
  /\ run_pc = "wait_connect"
  /\ \E r \in StatusReplies :
       /\ startswith(r, Connecting)
       /\ conn' = r
       /\ log' = log_status(r)
  /\ UNCHANGED <<parse_vars, run_pc, node, not_connected, func_calls, disc_polls, disc_sleeps>>

\* first while loop, status starts with 'Disconnected', flag not set:
\* not_connected = True; sleep(1); the test for 'Connected' fails
run_status_disconnected_first ==
  /\ run_pc = "wait_connect"
  /\ \E r \in StatusReplies :
       /\ ~startswith(r, Connecting)
       /\ startswith(r, Disconnected)
       /\ conn' = r
       /\ log' = log_status(r)
  /\ ~not_connected
  /\ not_connected' = TRUE
  /\ disc_polls' = disc_polls + 1
  /\ disc_sleeps' = disc_sleeps + 1
  /\ UNCHANGED <<parse_vars, run_pc, node, func_calls>>

\* first while loop, status starts with 'Disconnected', flag set: error, return
run_status_disconnected_again ==
  /\ run_pc = "wait_connect"
  /\ \E r \in StatusReplies :
       /\ ~startswith(r, Connecting)
       /\ startswith(r, Disconnected)
       /\ conn' = r
       /\ log' = log_status(r)
  /\ not_connected
  /\ disc_polls' = disc_polls + 1
  /\ run_pc' = "gave_up"
  /\ UNCHANGED <<parse_vars, node, not_connected, func_calls, disc_sleeps>>

\* mutant: a status that starts with 'Connecting' ends the wait as well
run_status_connected_or_connecting ==
  /\ run_pc = "wait_connect"
  /\ \E r \in StatusReplies :
       /\ ~startswith(r, Disconnected)
       /\ (startswith(r, Connected) \/ startswith(r, Connecting))
       /\ conn' = r
       /\ log' = log_status(r)
  /\ run_pc' = "func"
  /\ UNCHANGED <<parse_vars, node, not_connected, func_calls, disc_polls, disc_sleeps>>

\* first while loop, status starts with 'Connected': break
run_status_connected ==
  /\ run_pc = "wait_connect"
  /\ \E r \in StatusReplies :
       /\ ~startswith(r, Connecting)
       /\ ~startswith(r, Disconnected)
       /\ startswith(r, Connected)
       /\ conn' = r
       /\ log' = log_status(r)
  /\ run_pc' = "func"
  /\ UNCHANGED <<parse_vars, node, not_connected, func_calls, disc_polls, disc_sleeps>>

\* first while loop, any other status: the loop polls again at once
run_status_other ==
  /\ run_pc = "wait_connect"
  /\ \E r \in StatusReplies :
       /\ ~startswith(r, Connecting)
       /\ ~startswith(r, Disconnected)
       /\ ~startswith(r, Connected)
       /\ conn' = r
       /\ log' = log_status(r)
  /\ UNCHANGED <<parse_vars, run_pc, node, not_connected, func_calls, disc_polls, disc_sleeps>>

\* mutant: func is left out
run_func_skipped ==
  /\ run_pc = "func"
  /\ run_pc' = "disconnect"
  /\ UNCHANGED <<parse_vars, node, conn, not_connected, log, func_calls, disc_polls, disc_sleeps>>

\* func()
run_func ==
  /\ run_pc = "func"
  /\ log' = Append(log, event("func", <<>>))
  /\ func_calls' = Append(func_calls, node)
  /\ run_pc' = "disconnect"
  /\ UNCHANGED <<parse_vars, node, conn, not_connected, disc_polls, disc_sleeps>>

\* run_mullvad_command("disconnect")
run_disconnect ==
  /\ run_pc = "disconnect"
  /\ log' = Append(log, event("disconnect", <<>>))
  /\ run_pc' = "wait_disconnect"
  /\ UNCHANGED <<parse_vars, node, conn, not_connected, func_calls, disc_polls, disc_sleeps>>

\* second while loop, status starts with 'Disconnected': break, next entry
run_wait_disconnected ==
  /\ run_pc = "wait_disconnect"
  /\ \E r \in StatusReplies :
       /\ startswith(r, Disconnected)
       /\ conn' = r
       /\ log' = log_status(r)
  /\ node' = node + 1
  /\ run_pc' = "for"
  /\ UNCHANGED <<parse_vars, not_connected, func_calls, disc_polls, disc_sleeps>>

\* mutant: a status that starts with 'Disconnecting' ends the iteration
run_wait_disconnecting_moves_on ==
  /\ run_pc = "wait_disconnect"
  /\ \E r \in StatusReplies :
       /\ ~startswith(r, Disconnected)
       /\ startswith(r, Disconnecting)
       /\ conn' = r
       /\ log' = log_status(r)
  /\ node' = node + 1
  /\ run_pc' = "for"
  /\ UNCHANGED <<parse_vars, not_connected, func_calls, disc_polls, disc_sleeps>>

\* second while loop, status starts with 'Disconnecting': sleep(1); continue
run_wait_disconnecting ==
  /\ run_pc = "wait_disconnect"
  /\ \E r \in StatusReplies :
       /\ ~startswith(r, Disconnected)
       /\ startswith(r, Disconnecting)
       /\ conn' = r
       /\ log' = log_status(r)
  /\ UNCHANGED <<parse_vars, run_pc, node, not_connected, func_calls, disc_polls, disc_sleeps>>

\* second while loop, any other status: the loop polls again at once
run_wait_other ==
  /\ run_pc = "wait_disconnect"
  /\ \E r \in StatusReplies :
       /\ ~startswith(r, Disconnected)
       /\ ~startswith(r, Disconnecting)
       /\ conn' = r
       /\ log' = log_status(r)
  /\ UNCHANGED <<parse_vars, run_pc, node, not_connected, func_calls, disc_polls, disc_sleeps>>

\* the for loops ran out of entries
run_return ==
  /\ run_pc = "for"
  /\ node > Len(nodes)
  /\ run_pc' = "returned"
  /\ UNCHANGED <<parse_vars, node, conn, not_connected, log, func_calls, disc_polls, disc_sleeps>>

NextRun ==
  \/ run_set_location_failed
  \/ run_set_location
  \/ run_connect
  \/ run_status_connecting
  \/ run_status_disconnected_first
  \/ run_status_disconnected_again
  \/ run_status_connected
  \/ run_status_other
  \/ run_func
  \/ run_disconnect
  \/ run_wait_disconnected
  \/ run_wait_disconnecting
  \/ run_wait_other
  \/ run_return

SpecRun == InitRun /\ [][NextRun]_vars

(***************************************************************************)
(* The same loop under the assumptions of a well-behaved client: every     *)
(* call of run_mullvad_command and of func returns (weak fairness of the   *)
(* steps of the program), a status polled again and again after `connect`  *)
(* at last starts with 'Connected', and a status polled again and again    *)
(* after `disconnect` at last starts with 'Disconnected' (strong fairness  *)
(* of the two polls that end the while loops).                             *)
(***************************************************************************)
SpecRunFair ==
  /\ InitRun /\ [][NextRun]_vars
  /\ WF_vars(run_set_location_failed \/ run_set_location)
  /\ WF_vars(run_connect)
  /\ WF_vars(run_func)
  /\ WF_vars(run_disconnect)
  /\ WF_vars(run_return)
  /\ SF_vars(run_status_connected)
  /\ SF_vars(run_wait_disconnected)

(***************************************************************************)
(* What the text says, line by line, for stating the claims                *)
(***************************************************************************)
\* line j as the loop body sees it
rl(j) == rstrip(lines[j])

Max(S) == CHOOSE m \in S : \A n \in S : n <= m

IsCountryLine(l) == l # <<>> /\ top_re(l).ok

\* index of the last country line before line j, 0 when there is none
CountryLineBefore(j) ==
  LET P == {k \in 1..(j - 1) : IsCountryLine(rl(k))}
  IN IF P = {} THEN 0 ELSE Max(P)

\* index of the city line that is open at line j: the last city line before j
\* that follows the last country line before j; 0 when there is none
CityLineBefore(j) ==
  LET c == CountryLineBefore(j)
      P == {k \in (c + 1)..(j - 1) : c > 0 /\ IsCityLine(rl(k))}
  IN IF P = {} THEN 0 ELSE Max(P)

\* sub occurs in s at some offset (stated apart from the model's IsSubstring)
Contains(sub, s) ==
  \E k \in 0..(Len(s) - Len(sub)) : \A n \in 1..Len(sub) : s[k + n] = sub[n]

HasMarker(l) == Contains(protocol, leaf_re(l).groups[1])

Range(f) == {f[k] : k \in DOMAIN f}

(***************************************************************************)
(* C1: a server line met while no country or no city is open makes         *)
(* parse_data raise, whether or not its code contains the marker.          *)
(* Stated of the step that processes such a line.                          *)
(***************************************************************************)
C1_ServerLineWithoutCityRaises ==
  [][(InLoop /\ IsServerLine(line) /\ CityLineBefore(i) = 0)
       => pc' = "raised"]_vars

(***************************************************************************)
(* C2: a city line met before any country line makes parse_data raise at   *)
(* that line: the step that processes it ends in "raised" with nothing     *)
(* stored, and once raised the call processes no further line and returns  *)
(* no result.                                                              *)
(***************************************************************************)
C2_CityBeforeCountryRaises ==
  [][/\ (InLoop /\ IsCityLine(line) /\ CountryLineBefore(i) = 0)
          => (pc' = "raised" /\ error' = "Found city before country"
              /\ i' = i /\ raw' = raw /\ result' = <<>>)
     /\ pc = "raised" => (pc' = "raised" /\ i' = i /\ raw' = raw /\ result' = <<>>)]_vars

\* a city line before any country line has raised, and a later line is left
C2_Witness ==
  /\ pc = "raised"
  /\ error = "Found city before country"
  /\ IsCityLine(rl(i))
  /\ CountryLineBefore(i) = 0
  /\ i < Len(lines)

(***************************************************************************)
(* C3: pruning law.  In the returned mapping every country has a city and  *)
(* every city has a server; a city that collected no server, and a country *)
(* left without such a city, are absent.                                   *)
(***************************************************************************)
C3_PruningLaw ==
  pc = "done" =>
    /\ \A k \in DOMAIN result :
         /\ result[k].val # <<>>
         /\ \A c \in DOMAIN result[k].val : result[k].val[c].val # <<>>
    /\ \A k \in DOMAIN raw :
         /\ (\A c \in DOMAIN raw[k].val : raw[k].val[c].val = <<>>)
              => raw[k].key \notin dict_keys(result)
         /\ \A c \in DOMAIN raw[k].val :
              (raw[k].val[c].val = <<>> /\ raw[k].key \in dict_keys(result))
                => raw[k].val[c].key \notin dict_keys(dict_get(result, raw[k].key))

\* a country was pruned while another one was kept
C3_Witness ==
  /\ pc = "done"
  /\ result # <<>>
  /\ Len(result) < Len(raw)

(***************************************************************************)
(* C4: filter correctness.  Every server code stored by parse_data and     *)
(* every code returned by parse_flat contains the marker.                  *)
(***************************************************************************)
C4_FilterCorrectness ==
  /\ \A k \in DOMAIN raw : \A c \in DOMAIN raw[k].val :
       \A n \in DOMAIN raw[k].val[c].val :
         Contains(protocol, raw[k].val[c].val[n].code)
  /\ \A k \in DOMAIN result : \A c \in DOMAIN result[k].val :
       \A n \in DOMAIN result[k].val[c].val :
         Contains(protocol, result[k].val[c].val[n].code)
  /\ \A n \in DOMAIN flat_result : Contains(protocol, flat_result[n])

\* both parsers returned servers from a text that also holds, under an open
\* city, a server line without the marker
C4_Witness ==
  /\ pc = "done"
  /\ result # <<>>
  /\ flat_result # <<>>
  /\ \E j \in 1..Len(lines) :
       IsServerLine(rl(j)) /\ ~HasMarker(rl(j)) /\ CityLineBefore(j) > 0

(***************************************************************************)
(* More of what the text says                                              *)
(***************************************************************************)
CountryCode(j) == top_re(rl(j)).groups[2]
CityCode(j) == mid_re(rl(j)).groups[2]
ServerCode(j) == leaf_re(rl(j)).groups[1]

\* a server line whose code holds the marker
IsMarkedServerLine(j) == IsServerLine(rl(j)) /\ HasMarker(rl(j))

\* index of the last country line that declares code, 0 when there is none
LastCountryLine(code) ==
  LET P == {j \in 1..Len(lines) : IsCountryLine(rl(j)) /\ CountryCode(j) = code}
  IN IF P = {} THEN 0 ELSE Max(P)

\* index of the last line of the block opened by the country line j
BlockEnd(j) ==
  LET P == {k \in (j + 1)..Len(lines) : IsCountryLine(rl(k))}
  IN IF P = {} THEN Len(lines) ELSE (CHOOSE m \in P : \A n \in P : m <= n) - 1

\* index of the last line of the stretch opened by the city line j
CityEnd(j) ==
  LET P == {k \in (j + 1)..Len(lines) : IsCountryLine(rl(k)) \/ IsCityLine(rl(k))}
  IN IF P = {} THEN Len(lines) ELSE (CHOOSE m \in P : \A n \in P : m <= n) - 1

\* the (country index, city index) pairs of the result that hold code
StoredPairs(code) ==
  UNION { { <<k, c>> : c \in { c \in DOMAIN result[k].val :
                                \E n \in DOMAIN result[k].val[c].val :
                                  result[k].val[c].val[n].code = code } }
          : k \in DOMAIN result }

\* every server code of the result
StoredCodes ==
  UNION { UNION { { result[k].val[c].val[n].code : n \in DOMAIN result[k].val[c].val }
                  : c \in DOMAIN result[k].val }
          : k \in DOMAIN result }

NoTab(s) == \A n \in DOMAIN s : s[n] # TAB
HasNonSpace(s) == \E n \in DOMAIN s : ~IsSpace(s[n])

\* the code parse_flat's pattern finds on line j taken alone
FlatLine(j) == flat_match(lines[j], 1)

\* the country open at line j is not declared again, nor is the city open at
\* line j declared again before the next country line
NotRedeclaredAfter(j) ==
  /\ LastCountryLine(CountryCode(CountryLineBefore(j))) = CountryLineBefore(j)
  /\ \A j2 \in (j + 1)..BlockEnd(CountryLineBefore(j)) :
       ~(IsCityLine(rl(j2)) /\ CityCode(j2) = CityCode(CityLineBefore(j)))

\* the codes parse_flat's pattern finds line by line, from line j on, that
\* hold the marker
RECURSIVE FlatLineCodes(_)
FlatLineCodes(j) ==
  IF j > Len(lines) THEN <<>>
  ELSE (IF FlatLine(j).ok /\ Contains(protocol, FlatLine(j).code)
        THEN <<FlatLine(j).code>> ELSE <<>>) \o FlatLineCodes(j + 1)

\* the entries of the marked server lines among lines from..to, in order
RECURSIVE ServersIn(_, _)
ServersIn(from, to) ==
  IF from > to THEN <<>>
  ELSE (IF IsMarkedServerLine(from)
        THEN <<server_entry(leaf_re(rl(from)).groups)>> ELSE <<>>)
       \o ServersIn(from + 1, to)

\* index of the last line of country's last block that declares city
LastCityLine(country, city) ==
  LET first == LastCountryLine(country)
      P == {j \in (first + 1)..BlockEnd(first) : IsCityLine(rl(j)) /\ CityCode(j) = city}
  IN IF first = 0 \/ P = {} THEN 0 ELSE Max(P)

(***************************************************************************)
(* C5 as claimed: every code of parse_flat's output that sits under an     *)
(* open country and city is in parse_data's result under exactly one       *)
(* (country, city) pair, and every code of parse_data's result is in       *)
(* parse_flat's output.                                                    *)
(***************************************************************************)
C5_CrossConsistency_Claimed ==
  pc = "done" =>
    /\ \A j \in 1..Len(lines) :
         (FlatLine(j).ok /\ FlatLine(j).code \in Range(flat_result)
          /\ CityLineBefore(j) > 0)
           => Cardinality(StoredPairs(FlatLine(j).code)) = 1
    /\ \A code \in StoredCodes : code \in Range(flat_result)

(***************************************************************************)
(* C5 amended: every code of parse_data's result that holds no tab (and    *)
(* not only whitespace) is in parse_flat's output; and every code of       *)
(* parse_flat's output whose line also matches parse_data's server pattern *)
(* with the same code, under an open country and city neither of which is  *)
(* declared again later, is in parse_data's result under at least one      *)
(* (country, city) pair.                                                   *)
(***************************************************************************)
C5_CrossConsistency ==
  pc = "done" =>
    /\ \A code \in StoredCodes :
         (NoTab(code) /\ HasNonSpace(code)) => code \in Range(flat_result)
    /\ \A j \in 1..Len(lines) :
         (/\ FlatLine(j).ok
          /\ FlatLine(j).code \in Range(flat_result)
          /\ IsServerLine(rl(j))
          /\ ServerCode(j) = FlatLine(j).code
          /\ CityLineBefore(j) > 0
          /\ NotRedeclaredAfter(j))
           => StoredPairs(FlatLine(j).code) # {}

\* the result holds a code without tab, found by both parsers, and a code
\* with a tab, which parse_flat does not return
C5_Witness ==
  /\ pc = "done"
  /\ \E code \in StoredCodes : NoTab(code) /\ code \in Range(flat_result)
  /\ \E code \in StoredCodes : ~NoTab(code) /\ code \notin Range(flat_result)

(***************************************************************************)
(* C6: redefinition replaces.  What the result holds for a country code    *)
(* comes from the lines after the last country line with that code (up to  *)
(* the next country line): its cities are declared there, its servers are  *)
(* server lines there, and the marked server lines there whose city is not *)
(* declared again are all kept.  Nothing of an earlier block is kept.      *)
(***************************************************************************)
C6_RedefinitionReplaces ==
  pc = "done" =>
    /\ \A k \in DOMAIN result :
         LET first == LastCountryLine(result[k].key)
             block == (first + 1)..BlockEnd(first)
             cities == result[k].val
         IN /\ first > 0
            /\ \A c \in DOMAIN cities :
                 /\ \E j \in block : IsCityLine(rl(j)) /\ CityCode(j) = cities[c].key
                 /\ \A n \in DOMAIN cities[c].val :
                      \E j \in block :
                        /\ IsMarkedServerLine(j)
                        /\ server_entry(leaf_re(rl(j)).groups) = cities[c].val[n]
                        /\ CityCode(CityLineBefore(j)) = cities[c].key
    /\ \A j \in 1..Len(lines) :
         (IsMarkedServerLine(j) /\ CityLineBefore(j) > 0 /\ NotRedeclaredAfter(j))
           => /\ CountryCode(CountryLineBefore(j)) \in dict_keys(result)
              /\ CityCode(CityLineBefore(j))
                   \in dict_keys(dict_get(result, CountryCode(CountryLineBefore(j))))
              /\ server_entry(leaf_re(rl(j)).groups)
                   \in Range(dict_get(dict_get(result, CountryCode(CountryLineBefore(j))),
                                      CityCode(CityLineBefore(j))))

\* a country code was declared twice, a server having been stored under its
\* first declaration
C6_Witness ==
  /\ pc = "done"
  /\ \E j \in 1..Len(lines) :
       /\ IsMarkedServerLine(j)
       /\ CityLineBefore(j) > 0
       /\ LastCountryLine(CountryCode(CountryLineBefore(j))) > j

(***************************************************************************)
(* C7 as claimed: a line is a country line only without leading            *)
(* indentation and without tab before its first parenthesis; processing a  *)
(* line indented with spaces opens no entry and leaves the current country *)
(* and city alone.                                                         *)
(***************************************************************************)
C7_SpaceIndentedLineIgnored ==
  [][/\ (InLoop /\ line # <<>> /\ top_re(line).ok)
          => (line[1] \notin {SP, TAB}
              /\ NoTab(SubSeq(line, 1, FirstIn(line, {"("}, 1))))
     /\ (InLoop /\ line # <<>> /\ line[1] = SP)
          => (raw' = raw /\ current_country' = current_country
              /\ current_city' = current_city)]_vars

(***************************************************************************)
(* C8 as claimed: parse_flat returns exactly the codes of the two-tab      *)
(* server lines of the text that hold the marker, in the order of the      *)
(* lines, repeated codes kept.                                             *)
(***************************************************************************)
C8_FlatIsServerLineCodes ==
  flat_pc = "done" => flat_result = FlatLineCodes(1)

(***************************************************************************)
(* C9: parse_flat never fails and tracks no country or city: it returns a  *)
(* list on every text, also where parse_data raises, and the code of every *)
(* marked server line (without tab in it) is in that list wherever the     *)
(* line stands.                                                            *)
(***************************************************************************)
C9_FlatNeverFails ==
  /\ flat_pc \in {"idle", "done"}
  /\ pc = "raised" => flat_pc = "done"
  /\ flat_pc = "done" =>
       \A j \in 1..Len(lines) :
         (IsMarkedServerLine(j) /\ NoTab(ServerCode(j)))
           => ServerCode(j) \in Range(flat_result)

\* parse_data raised on a server line without city; parse_flat returned its code
C9_Witness ==
  /\ pc = "raised"
  /\ error = "Found server before country/city"
  /\ flat_pc = "done"
  /\ NoTab(ServerCode(i))
  /\ ServerCode(i) \in Range(flat_result)

(***************************************************************************)
(* C10: the servers of each city of the result are the marked server lines *)
(* that follow the city's last declaration, in the order of the lines;     *)
(* the pruning pass keeps the collected sequence as it is.                 *)
(***************************************************************************)
C10_ServerOrder ==
  pc = "done" =>
    \A k \in DOMAIN result : \A c \in DOMAIN result[k].val :
      LET jc == LastCityLine(result[k].key, result[k].val[c].key)
      IN /\ jc > 0
         /\ result[k].val[c].val = ServersIn(jc + 1, CityEnd(jc))
         /\ result[k].val[c].val
              = dict_get(dict_get(raw, result[k].key), result[k].val[c].key)

\* a city of the result holds two different servers
C10_Witness ==
  /\ pc = "done"
  /\ \E k \in DOMAIN result : \E c \in DOMAIN result[k].val :
       /\ Len(result[k].val[c].val) >= 2
       /\ result[k].val[c].val[1] # result[k].val[c].val[2]

(***************************************************************************)
(* C11: a blank line, and a line of none of the three shapes (such as a    *)
(* line with three leading tabs, a line without parenthesis, a two-tab     *)
(* line with three IPs), is ignored: the step that processes it leaves the *)
(* collected mapping, the current country and the current city as they     *)
(* were, raises nothing and moves on to the next line.                     *)
(***************************************************************************)
ThreeLeadingTabs(l) == Len(l) >= 3 /\ l[1] = TAB /\ l[2] = TAB /\ l[3] = TAB

NoParenthesis(l) == \A k \in DOMAIN l : l[k] # "("

\* two leading tabs and two commas or more inside the first parentheses
ThreeIPs(l) ==
  /\ Len(l) >= 2 /\ l[1] = TAB /\ l[2] = TAB
  /\ LET p == FirstIn(l, {"("}, 1)
         q == FirstIn(l, {")"}, p + 1)
     IN /\ p > 0 /\ q > 0
        /\ Cardinality({k \in (p + 1)..(q - 1) : l[k] = ","}) >= 2

MatchesNoShape(l) == ~top_re(l).ok /\ ~mid_re(l).ok /\ ~leaf_re(l).ok

C11_UnmatchedLineIgnored ==
  [][(InLoop /\ (line = <<>> \/ MatchesNoShape(line) \/ ThreeLeadingTabs(line)
                 \/ NoParenthesis(line) \/ ThreeIPs(line)))
       => (raw' = raw /\ current_country' = current_country
           /\ current_city' = current_city
           /\ pc' = "loop" /\ error' = error /\ i' = i + 1)]_vars

\* a line of none of the shapes was passed while a country and a city were
\* open, and both are still open
C11_Witness ==
  /\ pc = "loop"
  /\ i > 1
  /\ rl(i - 1) # <<>>
  /\ MatchesNoShape(rl(i - 1))
  /\ current_country # None /\ current_city # None

(***************************************************************************)
(* C12: every stored server entry owns one or two IPs: the one IP of its   *)
(* line, or the two IPs of its line in the order of the line.              *)
(***************************************************************************)
\* s without its leading whitespace
RECURSIVE lstrip(_)
lstrip(s) == IF Len(s) > 1 /\ IsSpace(s[1]) THEN lstrip(Tail(s)) ELSE s

\* the IPs written on line l: what stands between the first parentheses,
\* cut at the first comma
LineIPs(l) ==
  LET p == FirstIn(l, {"("}, 1)
      q == FirstIn(l, {")"}, p + 1)
      inner == SubSeq(l, p + 1, q - 1)
      c == FirstIn(inner, {","}, 1)
  IN IF c = 0 THEN <<lstrip(inner)>>
     ELSE <<lstrip(SubSeq(inner, 1, c - 1)), lstrip(SubSeq(inner, c + 1, Len(inner)))>>

\* entry e was stored from one of the marked server lines
FromServerLine(e) ==
  /\ Len(e.ips) \in {1, 2}
  /\ \E j \in 1..Len(lines) :
       /\ IsMarkedServerLine(j)
       /\ ServerCode(j) = e.code
       /\ LineIPs(rl(j)) = e.ips

C12_OneOrTwoIPs ==
  /\ \A k \in DOMAIN raw : \A c \in DOMAIN raw[k].val :
       \A e \in Range(raw[k].val[c].val) : FromServerLine(e)
  /\ \A k \in DOMAIN result : \A c \in DOMAIN result[k].val :
       \A e \in Range(result[k].val[c].val) : FromServerLine(e)

\* the result holds an entry with one IP and an entry with two different IPs
C12_Witness ==
  /\ pc = "done"
  /\ \E k \in DOMAIN result : \E c \in DOMAIN result[k].val :
       \E e1, e2 \in Range(result[k].val[c].val) :
         /\ Len(e1.ips) = 1
         /\ Len(e2.ips) = 2 /\ e2.ips[1] # e2.ips[2]

(***************************************************************************)
(* C15: a city line starts a new empty city entry under the current        *)
(* country, also when the city was declared before under that country:     *)
(* right after a city line the current city holds no server, and the       *)
(* result keeps for each city only the servers that follow its last        *)
(* declaration.                                                            *)
(***************************************************************************)
\* the codes of the marked server lines from line from to line to
RECURSIVE CodesIn(_, _)
CodesIn(from, to) ==
  IF from > to THEN <<>>
  ELSE (IF IsMarkedServerLine(from) THEN <<ServerCode(from)>> ELSE <<>>)
       \o CodesIn(from + 1, to)

C15_CityLineStartsEmpty ==
  /\ (i > 1 /\ IsCityLine(rl(i - 1)))
       => /\ current_country # None
          /\ current_city = CityCode(i - 1)
          /\ dict_get(dict_get(raw, current_country), current_city) = <<>>
  /\ pc = "done" =>
       \A k \in DOMAIN result : \A c \in DOMAIN result[k].val :
         LET jc == LastCityLine(result[k].key, result[k].val[c].key)
             servers == result[k].val[c].val
         IN [m \in DOMAIN servers |-> servers[m].code] = CodesIn(jc + 1, CityEnd(jc))

\* a city was declared twice under one country, with a marked server line
\* between the two declarations
C15_Witness ==
  /\ pc = "done"
  /\ \E j1, j2 \in 1..Len(lines) :
       /\ j1 < j2
       /\ IsCityLine(rl(j1)) /\ IsCityLine(rl(j2))
       /\ CityCode(j1) = CityCode(j2)
       /\ CountryLineBefore(j1) > 0
       /\ CountryLineBefore(j1) = CountryLineBefore(j2)
       /\ \E j \in (j1 + 1)..(j2 - 1) : IsMarkedServerLine(j)

(***************************************************************************)
(* C16 as claimed: the countries of the result, and the cities within each *)
(* country, are ordered by the position of the declaration line whose      *)
(* contents they hold, which is the last line that declares them, also     *)
(* when a code is declared more than once.                                 *)
(***************************************************************************)
C16_OrderOfHeldDeclaration ==
  pc = "done" =>
    /\ \A k1, k2 \in DOMAIN result :
         k1 < k2 => LastCountryLine(result[k1].key) < LastCountryLine(result[k2].key)
    /\ \A k \in DOMAIN result : \A c1, c2 \in DOMAIN result[k].val :
         c1 < c2 => LastCityLine(result[k].key, result[k].val[c1].key)
                      < LastCityLine(result[k].key, result[k].val[c2].key)

\* index of the first country line that declares code, 0 when there is none
FirstCountryLine(code) ==
  LET P == {j \in 1..Len(lines) : IsCountryLine(rl(j)) /\ CountryCode(j) = code}
  IN IF P = {} THEN 0 ELSE CHOOSE m \in P : \A j \in P : m <= j

\* index of the first line of country's last block that declares city
FirstCityLine(country, city) ==
  LET first == LastCountryLine(country)
      P == {j \in (first + 1)..BlockEnd(first) : IsCityLine(rl(j)) /\ CityCode(j) = city}
  IN IF first = 0 \/ P = {} THEN 0 ELSE CHOOSE m \in P : \A j \in P : m <= j

(***************************************************************************)
(* C16, amended: the countries of the result are ordered by the first line *)
(* that declares their code, and the cities of a country by the first line *)
(* of the country's last block that declares their code, while the         *)
(* contents are those of the last declaration; the two orders agree where  *)
(* no code is declared twice.                                              *)
(***************************************************************************)
C16_OrderOfFirstDeclaration ==
  pc = "done" =>
    /\ \A k1, k2 \in DOMAIN result :
         k1 < k2 => /\ FirstCountryLine(result[k1].key) > 0
                    /\ FirstCountryLine(result[k1].key) < FirstCountryLine(result[k2].key)
    /\ \A k \in DOMAIN result : \A c1, c2 \in DOMAIN result[k].val :
         c1 < c2 => /\ FirstCityLine(result[k].key, result[k].val[c1].key) > 0
                    /\ FirstCityLine(result[k].key, result[k].val[c1].key)
                         < FirstCityLine(result[k].key, result[k].val[c2].key)
    /\ \A k \in DOMAIN result :
         result[k].val = filtered_cities(dict_get(raw, result[k].key))

\* the result lists a country declared twice before a country declared in
\* between, and a city declared twice before a city declared in between
C16_Witness ==
  /\ pc = "done"
  /\ \/ \E k1, k2 \in DOMAIN result :
          k1 < k2 /\ LastCountryLine(result[k1].key) > LastCountryLine(result[k2].key)
     \/ \E k \in DOMAIN result : \E c1, c2 \in DOMAIN result[k].val :
          c1 < c2 /\ LastCityLine(result[k].key, result[k].val[c1].key)
                       > LastCityLine(result[k].key, result[k].val[c2].key)

(***************************************************************************)
(* What the history of a run says                                          *)
(***************************************************************************)
SET == "relay set location"

\* the output of `relay set location` tells a failure
SaysFailed(out) == startswith(out, Error) \/ ~Contains(Updated, out)

\* record m ends an attempt: a failed `relay set location`, or a status that
\* starts with 'Disconnected', polled after `disconnect`, issued after func
EndsAttempt(m) ==
  \/ log[m].cmd = SET /\ SaysFailed(log[m].out)
  \/ /\ m >= 3
     /\ log[m].cmd = "status" /\ startswith(log[m].out, Disconnected)
     /\ log[m - 1].cmd = "disconnect" /\ log[m - 1].node = log[m].node
     /\ log[m - 2].cmd = "func" /\ log[m - 2].node = log[m].node

(***************************************************************************)
(* C13: `relay set location` for a server is issued only after the attempt *)
(* of the server before it has ended, by a failed `relay set location` or  *)
(* by func, `disconnect` and a status poll that returned 'Disconnected';   *)
(* the commands of two servers never interleave.                           *)
(***************************************************************************)
C13_OneAttemptAtATime ==
  /\ \A k \in 1..(Len(log) - 1) : log[k].node <= log[k + 1].node
  /\ \A k \in DOMAIN log :
       log[k].cmd = SET =>
         /\ \A j \in 1..(k - 1) : log[j].node < log[k].node
         /\ k > 1 => (log[k].node = log[k - 1].node + 1 /\ EndsAttempt(k - 1))
         /\ k = 1 => log[k].node = 1

\* a server was attempted after a full attempt of the server before it
C13_Witness ==
  \E k \in DOMAIN log :
    /\ k > 1
    /\ log[k].cmd = SET
    /\ log[k - 1].cmd = "status"

(***************************************************************************)
(* C14 as claimed: the loop gives up only after five 1-second waits in     *)
(* which the status stayed 'Disconnected', the 5 seconds of its message.   *)
(***************************************************************************)
FiveSeconds == 5

C14_GivesUpAfterFiveSeconds ==
  run_pc = "gave_up" => disc_sleeps >= FiveSeconds

(***************************************************************************)
(* C17: func is called for a server only after `relay set location`        *)
(* succeeded for it, `connect` was issued and the last status poll         *)
(* returned text that starts with 'Connected' (not 'Connecting', not       *)
(* 'Disconnected'), and at most once per server entry.                     *)
(***************************************************************************)
C17_FuncOnlyWhenConnected ==
  [][func_calls' # func_calls =>
       /\ func_calls' = Append(func_calls, node)
       /\ node \notin Range(func_calls)
       /\ Len(log) >= 3
       /\ log[Len(log) - 2].cmd = SET /\ ~SaysFailed(log[Len(log) - 2].out)
       /\ log[Len(log) - 1].cmd = "connect"
       /\ log[Len(log)].cmd = "status" /\ log[Len(log)].out = conn
       /\ \A k \in (Len(log) - 2)..Len(log) : log[k].node = node
       /\ startswith(conn, Connected)
       /\ ~startswith(conn, Connecting) /\ ~startswith(conn, Disconnected)]_vars

\* func was called for two servers while another server was passed over
C17_Witness ==
  /\ Len(func_calls) >= 2
  /\ \E k \in DOMAIN log : log[k].cmd = SET /\ SaysFailed(log[k].out)

(***************************************************************************)
(* C18: when no wait for a connection meets 'Disconnected' twice, the run  *)
(* under SpecRunFair ends, having attempted every server and called func   *)
(* exactly once for each server whose `relay set location` succeeded, in   *)
(* the order of the hierarchy; a while loop is left only on a status that  *)
(* starts with 'Connected' or 'Disconnected', so that it never exits on    *)
(* other outputs.                                                          *)
(***************************************************************************)
\* the servers whose `relay set location` succeeded, in the order of the log
RECURSIVE SucceededIn(_)
SucceededIn(l) ==
  IF l = <<>> THEN <<>>
  ELSE (IF Head(l).cmd = SET /\ ~SaysFailed(Head(l).out) THEN <<Head(l).node>> ELSE <<>>)
       \o SucceededIn(Tail(l))

RunComplete ==
  /\ run_pc = "returned"
  /\ {log[k].node : k \in {k \in DOMAIN log : log[k].cmd = SET}} = 1..Len(nodes)
  /\ func_calls = SucceededIn(log)
  /\ \A k1, k2 \in DOMAIN func_calls : k1 < k2 => func_calls[k1] < func_calls[k2]

C18_TerminatesWhenClientAnswers ==
  /\ ([](run_pc # "gave_up")) => <>RunComplete
  /\ [][/\ (run_pc = "wait_connect" /\ run_pc' # "wait_connect")
             => (startswith(conn', Connected) \/ startswith(conn', Disconnected))
        /\ (run_pc = "wait_disconnect" /\ run_pc' # "wait_disconnect")
             => startswith(conn', Disconnected)]_vars

\* the run ended after func was called for two servers and one was passed over
C18_Witness ==
  /\ RunComplete
  /\ Len(func_calls) >= 2
  /\ Len(func_calls) < Len(nodes)

(***************************************************************************)
(* C19: after a failed `relay set location` no `connect`, status poll,     *)
(* func call or `disconnect` is made for that server; the next command is  *)
(* `relay set location` for the next server, and the run goes on while     *)
(* servers are left.                                                       *)
(***************************************************************************)
C19_FailedSetSkipsServer ==
  \A k \in DOMAIN log :
    (log[k].cmd = SET /\ SaysFailed(log[k].out)) =>
      /\ \A j \in DOMAIN log : j # k => log[j].node # log[k].node
      /\ log[k].node \notin Range(func_calls)
      /\ k < Len(log) => (log[k + 1].cmd = SET /\ log[k + 1].node = log[k].node + 1)
      /\ k = Len(log) =>
           /\ node = log[k].node + 1
           /\ run_pc \in {"for", "returned"}
           /\ node <= Len(nodes) => run_pc = "for"

\* a server whose `relay set location` printed nothing was passed over and the
\* next server was attempted
C19_Witness ==
  \E k \in DOMAIN log :
    /\ k < Len(log)
    /\ log[k].cmd = SET /\ log[k].out = <<>>
    /\ log[k + 1].cmd = SET

(***************************************************************************)
(* C20: the second status poll of one wait for a connection that returns   *)
(* 'Disconnected' makes the run return at once: no func call and no        *)
(* `disconnect` for that server, no command for a later server, no further *)
(* step.                                                                   *)
(***************************************************************************)
C20_SecondDisconnectedReturns ==
  [][/\ run_pc # "gave_up"
     /\ disc_polls' >= 2 => run_pc' = "gave_up"
     /\ run_pc' = "gave_up" =>
          /\ disc_polls' = 2
          /\ node' = node /\ node <= Len(nodes)
          /\ func_calls' = func_calls /\ node \notin Range(func_calls)
          /\ log'[Len(log')].cmd = "status" /\ log'[Len(log')].node = node
          /\ startswith(log'[Len(log')].out, Disconnected)
          /\ \A k \in DOMAIN log' :
               /\ log'[k].node <= node
               /\ log'[k].node = node => log'[k].cmd \in {SET, "connect", "status"}]_vars

\* the run gave up on a server after func was called for another one, with
\* servers left
C20_Witness ==
  /\ run_pc = "gave_up"
  /\ func_calls # <<>>
  /\ node < Len(nodes)

====
